---- MODULE Spec2Model ----
(***************************************************************************)
(* Flood classification of flood.py: the records are sorted, grouped and   *)
(* folded into per-location 24-hour rain windows (pass 1), then every      *)
(* tracked location is tested against the river anchors (pass 2).          *)
(*                                                                         *)
(* Floats are modelled by integers (rain amounts, distances, arc-length    *)
(* positions); an optional float is <<>> (None) or <<v>>.                  *)
(***************************************************************************)
EXTENDS Integers, Sequences, FiniteSets, TLC

VARIABLES
    records,         \* the list read by read_csv, sorted in place by main
    i,               \* index in records of the first record of the next group
    data,            \* dict Location -> Data
    data_order,      \* insertion order of the keys of data
    rain_flood,      \* set of rain-flooded locations
    river_flood,     \* dict river -> anchor (smallest projected position)
    loc,             \* main's loc, the location of the last group
    recs,            \* main's recs, the last group
    rain_24h,        \* main's rain_24h, the last rolling sum
    skill,           \* main's skill, the skill of the last group
    advisories,      \* the "needs" lines printed so far
    out_rain,        \* the locations printed under FLOOD BY RAIN
    out_river,       \* the <<loc, river>> lines printed under FLOOD BY RIVER
    k,               \* index in data_order of pass 2
    pc,              \* "sort", "pass1", "pass2", "done" or "raised"
    RIVERS,          \* river -> [distance, project], functions of the point
    RAIN_TO_SKILLS   \* the rule table

vars == <<records, i, data, data_order, rain_flood, river_flood, loc, recs,
          rain_24h, skill, advisories, out_rain, out_river, k, pc, RIVERS,
          RAIN_TO_SKILLS>>

-----------------------------------------------------------------------------
(* Bounds of the model *)

\* hours of the long single-location streams (more than the 24 of the window)
MaxHours == 26
\* records of a short stream
MaxRecs == 3
\* hours 0..MaxHour of a short stream
MaxHour == 3
\* arc-length positions 0..MaxPos
MaxPos == 1

-----------------------------------------------------------------------------
(* Values *)

inf == 1000000

None == <<>>

NONE == 0
BASIC_SKILLS == 1
INTERMEDIATE_SKILLS == 2
ADVANCED_SKILLS == 3

rain_threshold == 50
river_margin == 1000

RiverNames == {"Saar", "Blies"}

\* the strings of the model in Python's string order
Strings == <<"A", "B", "Clear", "Rain">>

StrLt(a, b) ==
    \E m, n \in 1..Len(Strings) : Strings[m] = a /\ Strings[n] = b /\ m < n

Record(c, t, la, lo, r, w) ==
    [city_name |-> c, dt |-> t, lat |-> la, lon |-> lo, rain_1h |-> r,
     weather_description |-> w]

Location(c, la, lo) == [city_name |-> c, lat |-> la, lon |-> lo]

Data_StartAtFirst(l, f, t, r) ==
    [loc |-> l, dt_from |-> t, dt_to |-> t, rain_24h |-> r]

Data(l, f, t, r) == [loc |-> l, dt_from |-> f, dt_to |-> t, rain_24h |-> r]

FloatRange(a, b, inc) == [start |-> a, stop |-> b, inc |-> inc]

RainToSkill(r, w, s) == [rain |-> r, weather |-> w, skill |-> s]

LocOf_ByName(rec) == Location(rec.city_name, 1, 1)

\* Location(city_name = rec.city_name, lat = rec.lat, lon = rec.lon)
LocOf(rec) == Location(rec.city_name, rec.lat, rec.lon)

\* Point(PROJECT.transform(loc.lat, loc.lon)): the point depends on the
\* coordinates alone, not on the city name
Point(l) == <<l.lat, l.lon>>

-----------------------------------------------------------------------------
(* read_rain_to_skills: the cells of the rules file are sequences of        *)
(* characters                                                              *)

Digits == <<"0", "1", "2", "3", "4", "5", "6", "7", "8", "9">>

\* str.strip()
RECURSIVE Strip(_)
Strip(r) ==
    IF r = <<>> THEN r
    ELSE IF r[1] = " " THEN Strip(Tail(r))
    ELSE IF r[Len(r)] = " " THEN Strip(SubSeq(r, 1, Len(r) - 1))
    ELSE r

\* float() of a decimal numeral without sign or fraction, blanks around it
\* ignored
RECURSIVE Float(_)
Float(r) ==
    LET t == Strip(r)
    IN  IF t = <<>> THEN 0
        ELSE 10 * Float(SubSeq(t, 1, Len(t) - 1))
             + (CHOOSE d \in 0..9 : Digits[d + 1] = t[Len(t)])

\* r.split("-", 1): the parts before and after the first "-"
Split(r) ==
    LET j == CHOOSE j \in 1..Len(r) :
                r[j] = "-" /\ \A q \in 1..(j - 1) : r[q] # "-"
    IN  <<SubSeq(r, 1, j - 1), SubSeq(r, j + 1, Len(r))>>

\* lines 95-105: the range of an "amount of rain" cell
ReadRange(cell) ==
    LET r == Strip(cell)
    IN  IF r = <<"-">> THEN FloatRange(0 - inf, inf, FALSE)
        ELSE IF r[1] = ">" THEN FloatRange(Float(Tail(r)), inf, FALSE)
        ELSE IF \E j \in 1..Len(r) : r[j] = "-"
        THEN FloatRange(Float(Split(r)[1]), Float(Split(r)[2]), TRUE)
        ELSE FloatRange(Float(r), Float(r), TRUE)

\* getattr(SkillLevel, row[rs].upper().replace(" ", "_"))
SkillNamed(name) ==
    CASE name = "None" -> NONE
      [] name = "Basic Skills" -> BASIC_SKILLS
      [] name = "Intermediate Skills" -> INTERMEDIATE_SKILLS
      [] name = "Advanced Skills" -> ADVANCED_SKILLS

\* a row is <<amount of rain, Weather Description, Required Skill Level>>
read_rain_to_skills(file) ==
    [m \in 1..Len(file) |->
        RainToSkill(ReadRange(file[m][1]), file[m][2], SkillNamed(file[m][3]))]

-----------------------------------------------------------------------------
(* records.sort(key = lambda x: x._replace(rain_1h = 0)) *)

\* tuple comparison of the keys (city_name, dt, lat, lon, 0, weather)
KeyLt(a, b) ==
    IF a.city_name # b.city_name THEN StrLt(a.city_name, b.city_name)
    ELSE IF a.dt # b.dt THEN a.dt < b.dt
    ELSE IF a.lat # b.lat THEN a.lat < b.lat
    ELSE IF a.lon # b.lon THEN a.lon < b.lon
    ELSE IF a.weather_description # b.weather_description
         THEN StrLt(a.weather_description, b.weather_description)
    ELSE FALSE

Insert_Append(s, x) == Append(s, x)

\* x goes after every element whose key is not greater (stable)
Insert(s, x) ==
    LET n == Cardinality({m \in 1..Len(s) : ~KeyLt(x, s[m])})
    IN  SubSeq(s, 1, n) \o <<x>> \o SubSeq(s, n + 1, Len(s))

RECURSIVE SortRecords(_)
SortRecords(s) ==
    IF s = <<>> THEN <<>>
    ELSE Insert(SortRecords(SubSeq(s, 1, Len(s) - 1)), s[Len(s)])

-----------------------------------------------------------------------------
(* itertools.groupby(records, key = lambda x: x[:-1]) *)

GroupKey_NoRain(x) == <<x.city_name, x.dt, x.lat, x.lon>>

GroupKey(x) == <<x.city_name, x.dt, x.lat, x.lon, x.rain_1h>>

\* index of the last record of the group that starts at index m
GroupEnd(s, m) ==
    CHOOSE n \in m..Len(s) :
        /\ \A q \in m..n : GroupKey(s[q]) = GroupKey(s[m])
        /\ n = Len(s) \/ GroupKey(s[n + 1]) # GroupKey(s[m])

-----------------------------------------------------------------------------
(* The body of the loop of pass 1 *)

\* float(rec.rain_1h or 0)
RainOf(rec) == IF rec.rain_1h = None \/ rec.rain_1h = <<0>> THEN 0 ELSE rec.rain_1h[1]

Evict_Newest(s) == IF Len(s) > 24 THEN SubSeq(s, 1, 24) ELSE s

Evict_Late(s) == IF Len(s) > 25 THEN Tail(s) ELSE s

\* if len(d.rain_24h) > 24: del d.rain_24h[0]
Evict(s) == IF Len(s) > 24 THEN Tail(s) ELSE s

RECURSIVE Sum(_)
Sum(s) == IF s = <<>> THEN 0 ELSE s[1] + Sum(Tail(s))

Min(a, b) == IF b < a THEN b ELSE a

Max_Last(a, b) == b

Max(a, b) == IF b > a THEN b ELSE a

Get(d, key, default) == IF key \in DOMAIN d THEN d[key] ELSE default

Continues_AtLeast(d, l, rec) == l # d.loc \/ rec.dt >= d.dt_to + 3600

\* loc != d.loc or rec.dt == d.dt_to + 3600
Continues(d, l, rec) == l # d.loc \/ rec.dt = d.dt_to + 3600

RainFlooded_Strict(r24) == r24 > rain_threshold

RainFlooded_Any(r24) == r24 > 0

\* rain_24h >= args.rain_threshold
RainFlooded(r24) == r24 >= rain_threshold

\* RIVERS[river].distance(p) < args.river_margin
Near_Inclusive(rivers, river, p) == rivers[river].distance[p] <= river_margin

Near(rivers, river, p) == rivers[river].distance[p] < river_margin

UpdateAnchors_Last(rf, rivers, p) ==
    LET near == {river \in DOMAIN rivers : Near(rivers, river, p)}
    IN  [river \in (DOMAIN rf) \cup near |->
            IF river \in near THEN rivers[river].project[p] ELSE rf[river]]

UpdateAnchors_Max(rf, rivers, p) ==
    LET near == {river \in DOMAIN rivers : Near(rivers, river, p)}
    IN  [river \in (DOMAIN rf) \cup near |->
            IF river \in near
            THEN Max(Get(rf, river, 0 - inf), rivers[river].project[p])
            ELSE rf[river]]

\* the loop over RIVERS after rain_flood.add(loc)
UpdateAnchors(rf, rivers, p) ==
    LET near == {river \in DOMAIN rivers : Near(rivers, river, p)}
    IN  [river \in (DOMAIN rf) \cup near |->
            IF river \in near
            THEN Min(Get(rf, river, inf), rivers[river].project[p])
            ELSE rf[river]]

\* FloatRange.check
Check_Inclusive(self, value) == self.start <= value /\ value <= self.stop

\* FloatRange.check
Check(self, value) ==
    IF self.inc
    THEN self.start <= value /\ value <= self.stop
    ELSE self.start < value /\ value < self.stop

\* the inner loop: for r2s in RAIN_TO_SKILLS, from rule m on
RECURSIVE SkillOfRules(_, _, _, _, _)
SkillOfRules(s, rec, rules, r24, m) ==
    IF m > Len(rules) THEN s
    ELSE SkillOfRules(
            IF rules[m].weather = rec.weather_description /\ Check(rules[m].rain, r24)
            THEN Max(s, rules[m].skill) ELSE s,
            rec, rules, r24, m + 1)

\* the outer loop: for rec in recs, from record m on
RECURSIVE SkillOfGroup(_, _, _, _, _)
SkillOfGroup(s, group, rules, r24, m) ==
    IF m > Len(group) THEN s
    ELSE SkillOfGroup(SkillOfRules(s, group[m], rules, r24, 1),
                      group, rules, r24, m + 1)

-----------------------------------------------------------------------------
(* Pass 2 *)

RiverFlooded_Strict(rf, rivers, river, p) ==
    Near(rivers, river, p) /\ rivers[river].project[p] > Get(rf, river, inf)

\* if loc in rain_flood: continue
Skipped_Never(l, rf) == FALSE

Skipped(l, rf) == l \in rf

\* RIVERS[river].distance(p) < margin and project(p) >= river_flood.get(river, inf)
RiverFlooded(rf, rivers, river, p) ==
    Near(rivers, river, p) /\ rivers[river].project[p] >= Get(rf, river, inf)

\* RIVERS is a dict: iteration in insertion order, Saar then Blies
RiverOrder == <<"Saar", "Blies">>

ReportLines(rf, rivers, l) ==
    LET hit(m) == RiverFlooded(rf, rivers, RiverOrder[m], Point(l))
    IN  (IF hit(1) THEN <<<<l, RiverOrder[1]>>>> ELSE <<>>) \o
        (IF hit(2) THEN <<<<l, RiverOrder[2]>>>> ELSE <<>>)

-----------------------------------------------------------------------------
(* Inputs *)

T(h) == 3600 * h

LA1 == Location("A", 1, 1)
LA2 == Location("A", 2, 1)
LB  == Location("B", 1, 1)
Locations == {LA1, LA2, LB}
Points == {Point(l) : l \in Locations}
NoLoc == Location("", 0, 0)

Weathers == {"Clear", "Rain"}
Rains == {None, <<0>>, <<25>>, <<50>>}

\* the rows of rules files: amount of rain, Weather Description, Required
\* Skill Level; a cell of amounts has one character per element
RuleFiles ==
    { << << <<"0", "-", "5", "0">>, "Rain", "Advanced Skills">>,
         << <<"2", "5", "-", "7", "5">>, "Rain", "Basic Skills">>,
         << <<">", "2", "5">>, "Clear", "Intermediate Skills">> >>,
      << << <<">", " ", "2", "5", " ">>, "Clear", "Basic Skills">>,
         << <<"2", "5", " ", "-", " ", "7", "5">>, "Rain", "Advanced Skills">>,
         << <<"5", "0">>, "Rain", "Intermediate Skills">> >>,
      << << <<"-">>, "Rain", "Basic Skills">>,
         << <<" ", "5", "0">>, "Clear", "Intermediate Skills">>,
         << <<"2", "5", "-", "7", "5">>, "Rain", "Advanced Skills">> >>,
      << << <<" ", "-", " ">>, "Rain", "Basic Skills">>,
         << <<">", "2", "5">>, "Clear", "Advanced Skills">>,
         << <<"2", "5", "-", "7", "5">>, "Rain", "Intermediate Skills">> >> }

RuleTables == {read_rain_to_skills(file) : file \in RuleFiles}

Geometries ==
    [RiverNames -> [distance : [Points -> {river_margin - 1, river_margin}],
                    project : [Points -> 0..MaxPos]]]

\* every location near every river, positions by latitude
PlainGeometry ==
    [river \in RiverNames |->
        [distance |-> [p \in Points |-> river_margin - 1],
         project |-> [p \in Points |-> IF p[1] > MaxPos THEN MaxPos ELSE p[1]]]]

PlainTable == CHOOSE t \in RuleTables : t[1].skill = ADVANCED_SKILLS

Range(f) == {f[x] : x \in DOMAIN f}

RECURSIVE SetToSeq(_)
SetToSeq(S) ==
    IF S = {} THEN <<>>
    ELSE LET x == CHOOSE x \in S : TRUE IN <<x>> \o SetToSeq(S \ {x})

Reverse(s) == [m \in 1..Len(s) |-> s[Len(s) + 1 - m]]

\* the subsets of U of at most n elements
RECURSIVE SubsetsUpTo(_, _)
SubsetsUpTo(U, n) ==
    IF n = 0 THEN {{}}
    ELSE LET smaller == SubsetsUpTo(U, n - 1)
         IN  smaller \cup {S \cup {x} : S \in smaller, x \in U}

Orders(S) == {SetToSeq(S), Reverse(SetToSeq(S))}

\* short streams of two locations that share a city name, in two arrival
\* orders: gaps, duplicates, interleaving
StreamUniverse ==
    {Record(l.city_name, T(h), l.lat, l.lon, r, w) :
        l \in {LA1, LA2}, h \in 0..MaxHour, r \in {None, <<25>>}, w \in {"Rain"}}

StreamInputs == UNION {Orders(S) : S \in SubsetsUpTo(StreamUniverse, MaxRecs)}

\* the records of one location in one hour, in two arrival orders: groups
GroupUniverse ==
    {Record(LA1.city_name, T(0), LA1.lat, LA1.lon, r, w) :
        r \in Rains, w \in Weathers}

GroupInputs == UNION {Orders(S) : S \in SUBSET GroupUniverse}

\* one record per location at hour 0: which locations are rain-flooded
RiverInputs ==
    {Reverse(SetToSeq({Record(l.city_name, T(0), l.lat, l.lon, f[l], "Rain") :
                          l \in Locations})) :
        f \in [Locations -> {<<25>>, <<50>>}]}

\* one location, MaxHours contiguous hours, no rain but in two hours
WindowInputs ==
    UNION {{[h \in 1..MaxHours |->
                Record("A", T(h - 1), 1, 1,
                       IF h = h1 THEN r1 ELSE IF h = h2 THEN r2 ELSE <<0>>, "Rain")] :
               h2 \in h1..MaxHours, r1 \in {<<25>>, <<50>>},
               r2 \in {None, <<25>>, <<50>>}} :
           h1 \in 1..MaxHours}

-----
(* The program *)

Init ==
    /\ \/ records \in StreamInputs /\ RIVERS = PlainGeometry
          /\ RAIN_TO_SKILLS = PlainTable
       \/ records \in GroupInputs /\ RIVERS = PlainGeometry
          /\ RAIN_TO_SKILLS \in RuleTables
       \/ records \in RiverInputs /\ RIVERS \in Geometries
          /\ RAIN_TO_SKILLS = PlainTable
       \/ records \in WindowInputs /\ RIVERS = PlainGeometry
          /\ RAIN_TO_SKILLS = PlainTable
    /\ i = 1
    /\ data = <<>>
    /\ data_order = <<>>
    /\ rain_flood = {}
    /\ river_flood = <<>>
    /\ loc = NoLoc
    /\ recs = <<>>
    /\ rain_24h = 0
    /\ skill = NONE
    /\ advisories = <<>>
    /\ out_rain = {}
    /\ out_river = <<>>
    /\ k = 1
    /\ pc = "sort"

\* line 155
Sort ==
    /\ pc = "sort"
    /\ records' = SortRecords(records)
    /\ pc' = "pass1"
    /\ UNCHANGED <<i, data, data_order, rain_flood, river_flood, loc, recs,
                   rain_24h, skill, advisories, out_rain, out_river, k, RIVERS,
                   RAIN_TO_SKILLS>>

ProcessGroup_Unflood ==
    /\ pc = "pass1"
    /\ i <= Len(records)
    /\ LET n == GroupEnd(records, i)
           group == SubSeq(records, i, n)
           rec == group[1]
           l == LocOf(rec)
       IN  /\ l \in DOMAIN data => Continues(data[l], l, rec)
           /\ LET d0 == IF l \in DOMAIN data
                        THEN [data[l] EXCEPT !.dt_to = rec.dt]
                        ELSE Data(l, rec.dt - 3600, rec.dt, <<>>)
                  d == [d0 EXCEPT !.rain_24h = Evict(Append(@, RainOf(rec)))]
                  r24 == Sum(d.rain_24h)
                  s == SkillOfGroup(NONE, group, RAIN_TO_SKILLS, r24, 1)
              IN  /\ loc' = l
                  /\ recs' = group
                  /\ rain_24h' = r24
                  /\ IF RainFlooded(r24)
                     THEN /\ rain_flood' = rain_flood \cup {l}
                          /\ river_flood' = UpdateAnchors(river_flood, RIVERS, Point(l))
                     ELSE /\ rain_flood' = rain_flood \ {l}
                          /\ river_flood' = river_flood
                  /\ skill' = s
                  /\ advisories' = IF s # NONE
                                   THEN Append(advisories, <<l, s, group[Len(group)].dt>>)
                                   ELSE advisories
                  /\ data' = (l :> d) @@ data
                  /\ data_order' = IF l \in DOMAIN data THEN data_order
                                   ELSE Append(data_order, l)
                  /\ i' = n + 1
    /\ UNCHANGED <<records, out_rain, out_river, k, pc, RIVERS, RAIN_TO_SKILLS>>

\* lines 159-187, an iteration that does not raise
ProcessGroup ==
    /\ pc = "pass1"
    /\ i <= Len(records)
    /\ LET n == GroupEnd(records, i)
           group == SubSeq(records, i, n)
           rec == group[1]
           l == LocOf(rec)
       IN  /\ l \in DOMAIN data => Continues(data[l], l, rec)
           /\ LET d0 == IF l \in DOMAIN data
                        THEN [data[l] EXCEPT !.dt_to = rec.dt]
                        ELSE Data(l, rec.dt - 3600, rec.dt, <<>>)
                  d == [d0 EXCEPT !.rain_24h = Evict(Append(@, RainOf(rec)))]
                  r24 == Sum(d.rain_24h)
                  s == SkillOfGroup(NONE, group, RAIN_TO_SKILLS, r24, 1)
              IN  /\ loc' = l
                  /\ recs' = group
                  /\ rain_24h' = r24
                  /\ IF RainFlooded(r24)
                     THEN /\ rain_flood' = rain_flood \cup {l}
                          /\ river_flood' = UpdateAnchors(river_flood, RIVERS, Point(l))
                     ELSE UNCHANGED <<rain_flood, river_flood>>
                  /\ skill' = s
                  /\ advisories' = IF s # NONE
                                   THEN Append(advisories, <<l, s, group[Len(group)].dt>>)
                                   ELSE advisories
                  /\ data' = (l :> d) @@ data
                  /\ data_order' = IF l \in DOMAIN data THEN data_order
                                   ELSE Append(data_order, l)
                  /\ i' = n + 1
    /\ UNCHANGED <<records, out_rain, out_river, k, pc, RIVERS, RAIN_TO_SKILLS>>

Raise_Skip ==
    /\ pc = "pass1"
    /\ i <= Len(records)
    /\ LET n == GroupEnd(records, i)
           group == SubSeq(records, i, n)
           rec == group[1]
           l == LocOf(rec)
       IN  /\ l \in DOMAIN data
           /\ ~Continues(data[l], l, rec)
           /\ loc' = l
           /\ recs' = group
           /\ i' = n + 1
    /\ UNCHANGED <<records, data, data_order, rain_flood, river_flood, pc,
                   rain_24h, skill, advisories, out_rain, out_river, k, RIVERS,
                   RAIN_TO_SKILLS>>

\* lines 159-169, the iteration that raises
Raise ==
    /\ pc = "pass1"
    /\ i <= Len(records)
    /\ LET n == GroupEnd(records, i)
           group == SubSeq(records, i, n)
           rec == group[1]
           l == LocOf(rec)
       IN  /\ l \in DOMAIN data
           /\ ~Continues(data[l], l, rec)
           /\ loc' = l
           /\ recs' = group
    /\ pc' = "raised"
    /\ UNCHANGED <<records, i, data, data_order, rain_flood, river_flood,
                   rain_24h, skill, advisories, out_rain, out_river, k, RIVERS,
                   RAIN_TO_SKILLS>>

\* lines 188-191
PrintRainFlood ==
    /\ pc = "pass1"
    /\ i > Len(records)
    /\ out_rain' = rain_flood
    /\ k' = 1
    /\ pc' = "pass2"
    /\ UNCHANGED <<records, i, data, data_order, rain_flood, river_flood, loc,
                   recs, rain_24h, skill, advisories, out_river, RIVERS,
                   RAIN_TO_SKILLS>>

ReportLocation_Early ==
    /\ pc \in {"pass1", "pass2"}
    /\ k <= Len(data_order)
    /\ out_river' = IF Skipped(data_order[k], rain_flood) THEN out_river
                    ELSE out_river \o ReportLines(river_flood, RIVERS, data_order[k])
    /\ k' = k + 1
    /\ UNCHANGED <<records, i, data, data_order, rain_flood, river_flood, loc,
                   recs, rain_24h, skill, advisories, out_rain, pc, RIVERS,
                   RAIN_TO_SKILLS>>

\* lines 192-198, one iteration
ReportLocation ==
    /\ pc = "pass2"
    /\ k <= Len(data_order)
    /\ out_river' = IF Skipped(data_order[k], rain_flood) THEN out_river
                    ELSE out_river \o ReportLines(river_flood, RIVERS, data_order[k])
    /\ k' = k + 1
    /\ UNCHANGED <<records, i, data, data_order, rain_flood, river_flood, loc,
                   recs, rain_24h, skill, advisories, out_rain, pc, RIVERS,
                   RAIN_TO_SKILLS>>

\* main returns
Return ==
    /\ pc = "pass2"
    /\ k > Len(data_order)
    /\ pc' = "done"
    /\ UNCHANGED <<records, i, data, data_order, rain_flood, river_flood, loc,
                   recs, rain_24h, skill, advisories, out_rain, out_river, k,
                   RIVERS, RAIN_TO_SKILLS>>

Next ==
    \/ Sort
    \/ ProcessGroup
    \/ Raise
    \/ PrintRainFlood
    \/ ReportLocation
    \/ Return

Spec == Init /\ [][Next]_vars

-----------------------------------------------------------------------------
(* main as a function of the list that read_csv returns, for the           *)
(* comparison of two runs                                                  *)

\* lines 159-187 from the group at index m on; st holds data, data_order,
\* rain_flood, river_flood, advisories and status
RECURSIVE RunPass1(_, _, _)
RunPass1(s, m, st) ==
    IF m > Len(s) THEN [st EXCEPT !.status = "done"]
    ELSE LET n == GroupEnd(s, m)
             group == SubSeq(s, m, n)
             rec == group[1]
             l == LocOf(rec)
         IN  IF l \in DOMAIN st.data /\ ~Continues(st.data[l], l, rec)
             THEN [st EXCEPT !.status = "raised"]
             ELSE LET d0 == IF l \in DOMAIN st.data
                            THEN [st.data[l] EXCEPT !.dt_to = rec.dt]
                            ELSE Data(l, rec.dt - 3600, rec.dt, <<>>)
                      d == [d0 EXCEPT !.rain_24h = Evict(Append(@, RainOf(rec)))]
                      r24 == Sum(d.rain_24h)
                      sk == SkillOfGroup(NONE, group, RAIN_TO_SKILLS, r24, 1)
                  IN  RunPass1(s, n + 1,
                        [data |-> (l :> d) @@ st.data,
                         data_order |-> IF l \in DOMAIN st.data THEN st.data_order
                                        ELSE Append(st.data_order, l),
                         rain_flood |-> IF RainFlooded(r24)
                                        THEN st.rain_flood \cup {l}
                                        ELSE st.rain_flood,
                         river_flood |-> IF RainFlooded(r24)
                                         THEN UpdateAnchors(st.river_flood, RIVERS,
                                                            Point(l))
                                         ELSE st.river_flood,
                         advisories |-> IF sk # NONE
                                        THEN Append(st.advisories,
                                                    <<l, sk, group[Len(group)].dt>>)
                                        ELSE st.advisories,
                         status |-> st.status])

\* lines 192-198 from the location at index m of the keys of data on
RECURSIVE RunPass2(_, _, _, _)
RunPass2(order, m, rain, rf) ==
    IF m > Len(order) THEN <<>>
    ELSE (IF Skipped(order[m], rain) THEN <<>>
          ELSE ReportLines(rf, RIVERS, order[m])) \o
         RunPass2(order, m + 1, rain, rf)

\* lines 154-198: what a run on the list prints, and how it ends
RunOf(input) ==
    LET st == RunPass1(SortRecords(input), 1,
                       [data |-> <<>>, data_order |-> <<>>, rain_flood |-> {},
                        river_flood |-> <<>>, advisories |-> <<>>,
                        status |-> "pass1"])
    IN  [status |-> st.status,
         advisories |-> st.advisories,
         out_rain |-> IF st.status = "done" THEN st.rain_flood ELSE {},
         out_river |-> IF st.status = "done"
                       THEN RunPass2(st.data_order, 1, st.rain_flood, st.river_flood)
                       ELSE <<>>]

-----------------------------------------------------------------------------
(* The observations of the input, for the properties *)

\* the records that pass 1 has consumed
Processed == IF pc = "sort" THEN {} ELSE 1..(i - 1)

\* the last iteration of pass 1 ran to its end: loc, recs, rain_24h and skill
\* are those of the group before index i
GroupDone == pc \in {"pass1", "pass2", "done"} /\ i > 1

ObsOf(l) == {m \in 1..Len(records) : LocOf(records[m]) = l}

\* the hourly rain of an observation, 0 for a missing one
RainValue(x) == IF x.rain_1h = None THEN 0 ELSE x.rain_1h[1]

RECURSIVE SumRain(_)
SumRain(S) ==
    IF S = {} THEN 0
    ELSE LET m == CHOOSE m \in S : TRUE
         IN  RainValue(records[m]) + SumRain(S \ {m})

\* the observations of l consumed so far in the 24 hours t-23h..t
InWindow(l, t) ==
    {m \in Processed : /\ LocOf(records[m]) = l
                       /\ t - 23 * 3600 <= records[m].dt
                       /\ records[m].dt <= t}

\* the first of the records of its location and hour (in the sorted list the
\* records of one location and hour are adjacent)
FirstOfHour(m) ==
    \/ m = 1
    \/ LocOf(records[m - 1]) # LocOf(records[m])
    \/ records[m - 1].dt # records[m].dt

\* the rain of the 24 hours t-23h..t at l, each hour counted once
RollingSum(l, t) == SumRain({m \in InWindow(l, t) : FirstOfHour(m)})

\* one observation per hour, the hours consecutive
ValidContiguous(l) ==
    LET obs == ObsOf(l)
        hours == {records[m].dt : m \in obs}
    IN  /\ Cardinality(hours) = Cardinality(obs)
        /\ \A t \in hours : t - 3600 \in hours \/ \A u \in hours : u >= t

-----------------------------------------------------------------------------
(* C1: for a location whose observations are one per hour over consecutive *)
(* hours, the rolling sum computed for the observation at hour t is the    *)
(* sum of the rain of its observations at the hours t-23h..t, a missing    *)
(* rain counting 0.                                                        *)
C1_RollingSum ==
    (GroupDone /\ ValidContiguous(loc)) =>
        rain_24h = SumRain(InWindow(loc, recs[1].dt))

\* 25 hours consumed: the 50 of the first hour has left the window, the 25
\* of a later hour is in it
C1_Witness ==
    /\ GroupDone /\ ValidContiguous(loc)
    /\ i = 26
    /\ records[1].rain_1h = <<50>>
    /\ rain_24h = 25

(* C3: every location of the rain-flooded set, during the run and in the   *)
(* output, has an observation after which its rolling 24h sum is at least  *)
(* rain_threshold: a location whose sum stays below it is never a member.  *)
C3_BelowNeverFlooded ==
    \A l \in rain_flood \cup out_rain :
        \E m \in Processed :
            LocOf(records[m]) = l /\ RollingSum(l, records[m].dt) >= rain_threshold

\* a run ends with a location that had rain (25) but is not rain-flooded,
\* next to one that is
C3_Witness ==
    /\ pc = "done"
    /\ rain_flood # {}
    /\ \E l \in DOMAIN data :
          l \notin out_rain /\ \E m \in ObsOf(l) : RollingSum(l, records[m].dt) = 25

(* C4: a location with an observation after which its rolling 24h sum is   *)
(* exactly rain_threshold is in the rain-flooded set: right after that     *)
(* observation, and in the output of the run.                              *)
C4_ThresholdInclusive ==
    /\ (GroupDone /\ RollingSum(loc, recs[1].dt) = rain_threshold) =>
           loc \in rain_flood
    /\ pc = "done" =>
           \A m \in Processed :
               RollingSum(LocOf(records[m]), records[m].dt) = rain_threshold =>
                   LocOf(records[m]) \in out_rain

\* a rain-flooded location whose rolling sum reached the threshold (25 + 25)
\* and never exceeded it
C4_Witness ==
    /\ pc = "done"
    /\ \E l \in out_rain :
          /\ \A m \in ObsOf(l) : RollingSum(l, records[m].dt) <= rain_threshold
          /\ \E m \in ObsOf(l) : records[m].rain_1h = <<25>>

-----------------------------------------------------------------------------
(* Rivers, for the properties *)

Tracked == {LocOf(records[m]) : m \in 1..Len(records)}

Within(l, river) == RIVERS[river].distance[Point(l)] < river_margin

Pos(l, river) == RIVERS[river].project[Point(l)]

Reported == Range(out_river)

(* C2: when the run has completed, <<location, river>> is reported         *)
(* river-flooded exactly when the location is not rain-flooded, is within  *)
(* river_margin of the river and its position on it is at or after that of *)
(* a rain-flooded location within river_margin of the same river; a river  *)
(* with no rain-flooded location near it has no anchor and no report.      *)
C2_RiverFlooded ==
    pc = "done" =>
        /\ Reported =
              {lr \in Tracked \X RiverNames :
                  /\ lr[1] \notin out_rain
                  /\ Within(lr[1], lr[2])
                  /\ \E u \in out_rain :
                        Within(u, lr[2]) /\ Pos(lr[1], lr[2]) >= Pos(u, lr[2])}
        /\ \A river \in RiverNames :
              (~\E u \in out_rain : Within(u, river)) =>
                  /\ river \notin DOMAIN river_flood
                  /\ \A l \in Tracked : <<l, river>> \notin Reported

\* one location reported on a river, another near it but upstream of the
\* anchor and not reported, and that one near a river without anchor
C2_Witness ==
    /\ pc = "done"
    /\ \E l, u \in Tracked : \E river, other \in RiverNames :
          /\ <<l, river>> \in Reported
          /\ u \notin out_rain /\ Within(u, river) /\ <<u, river>> \notin Reported
          /\ other \notin DOMAIN river_flood /\ Within(u, other)

-----------------------------------------------------------------------------
(* Continuity, for the properties *)

\* an observation of l two hours or more after the one before it
HasGap(l) ==
    LET hours == {records[m].dt : m \in ObsOf(l)}
    IN  \E t \in hours :
            /\ \E u \in hours : u < t
            /\ \A u \in hours : u < t => u + 7200 <= t

\* the next group is of a location with an open window and skips an hour
GapNext ==
    /\ pc = "pass1"
    /\ i <= Len(records)
    /\ LocOf(records[i]) \in DOMAIN data
    /\ records[i].dt >= data[LocOf(records[i])].dt_to + 7200

Completed == pc \in {"pass2", "done"}

(* C5: with an open window for the location, the observation that skips an *)
(* hour (window_end + 7200 or later) raises, and no run on an input with a *)
(* gap in the stream of a location gets past pass 1.                       *)
C5_GapRaises ==
    [][/\ GapNext => pc' = "raised"
       /\ (\E l \in Tracked : HasGap(l)) => ~Completed']_vars

\* the third observation of a location jumps from hour N to hour N+2
C5_Witness ==
    /\ pc = "raised"
    /\ loc \in DOMAIN data
    /\ Len(data[loc].rain_24h) = 2
    /\ recs[1].dt = data[loc].dt_to + 7200

\* two records of one location and hour
Duplicates(m, n) ==
    m # n /\ LocOf(records[m]) = LocOf(records[n]) /\ records[m].dt = records[n].dt

(* C6 as stated: a record that duplicates the timestamp of another record  *)
(* of its location raises, whatever its rain and weather, so that no run   *)
(* on an input with such a duplicate gets past pass 1.                     *)
C6_DuplicateRaises ==
    (\E m, n \in 1..Len(records) : Duplicates(m, n)) => ~Completed

(* C6 amended: records of one location and hour raise exactly when they    *)
(* differ in rain_1h (None differs from 0); with equal rain_1h they are    *)
(* one group, processed as one observation, and nothing is raised: a run   *)
(* gets past pass 1 only if all duplicates agree in rain_1h, and the raise *)
(* on a repeated hour has a processed record of that hour with another     *)
(* rain_1h.                                                                *)
C6_DuplicateRaisesIfRainDiffers ==
    /\ Completed =>
          \A m, n \in 1..Len(records) :
              Duplicates(m, n) => records[m].rain_1h = records[n].rain_1h
    /\ (pc = "raised" /\ recs[1].dt = data[loc].dt_to) =>
          \E m \in Processed :
              /\ LocOf(records[m]) = loc /\ records[m].dt = recs[1].dt
              /\ records[m].rain_1h # recs[1].rain_1h
    /\ GroupDone =>
          \A m \in 1..Len(records) :
              (LocOf(records[m]) = loc /\ records[m].dt = recs[1].dt
                  /\ records[m].rain_1h = recs[1].rain_1h /\ m < i) =>
                  \E q \in 1..Len(recs) : recs[q] = records[m]

\* a completed run whose input has two records of one location and hour,
\* of different weather
C6_Witness ==
    /\ pc = "done"
    /\ \E m, n \in 1..Len(records) :
          /\ Duplicates(m, n)
          /\ records[m].weather_description # records[n].weather_description

-----------------------------------------------------------------------------
(* C7: no step increases the anchor of a river or unsets it: the anchor    *)
(* stays or is replaced by a smaller position.                             *)
C7_AnchorNeverIncreases ==
    [][\A river \in DOMAIN river_flood :
          /\ river \in DOMAIN river_flood'
          /\ river_flood'[river] <= river_flood[river]]_vars

\* the anchor of a river is below the position of the rain-flooded location
\* that set it first
C7_Witness ==
    \E river \in DOMAIN river_flood :
        /\ data_order # <<>>
        /\ data_order[1] \in rain_flood
        /\ Within(data_order[1], river)
        /\ river_flood[river] < Pos(data_order[1], river)

(* C8: when the run has completed, a location that is not rain-flooded and *)
(* is within river_margin of a river with an anchor is reported for that   *)
(* river if its position equals the anchor, and is not reported for it if  *)
(* its position is the anchor minus 1.                                     *)
C8_AnchorInclusive ==
    pc = "done" =>
        \A l \in Tracked \ out_rain : \A river \in DOMAIN river_flood :
            Within(l, river) =>
                /\ Pos(l, river) = river_flood[river] => <<l, river>> \in Reported
                /\ Pos(l, river) = river_flood[river] - 1 =>
                      <<l, river>> \notin Reported

\* both cases on one river
C8_Witness ==
    /\ pc = "done"
    /\ \E river \in DOMAIN river_flood : \E l, u \in Tracked \ out_rain :
          /\ Within(l, river) /\ Pos(l, river) = river_flood[river]
          /\ Within(u, river) /\ Pos(u, river) = river_flood[river] - 1

(* C9: no location of the rain-flooded set is reported river-flooded, for  *)
(* any river.                                                              *)
C9_Disjoint ==
    \A lr \in Reported : lr[1] \notin rain_flood /\ lr[1] \notin out_rain

\* a rain-flooded location that set the anchor of one river and is near
\* another river downstream of that river's anchor, while some other
\* location is reported
C9_Witness ==
    /\ pc = "done"
    /\ Reported # {}
    /\ \E l \in out_rain : \E river, other \in DOMAIN river_flood :
          /\ river # other
          /\ Within(l, other) /\ Pos(l, other) = river_flood[other]
          /\ Within(l, river) /\ Pos(l, river) > river_flood[river]

-----------------------------------------------------------------------------
(* Skills, for the properties *)

\* the rules that match an observation of the last group at its rolling sum
Matching ==
    {m \in 1..Len(RAIN_TO_SKILLS) :
        /\ Check(RAIN_TO_SKILLS[m].rain, rain_24h)
        /\ \E q \in 1..Len(recs) :
              RAIN_TO_SKILLS[m].weather = recs[q].weather_description}

AdvisoriesOf(l, t) ==
    {a \in 1..Len(advisories) : advisories[a][1] = l /\ advisories[a][3] = t}

(* C10: the skill of a processed group is the greatest skill of the rules  *)
(* whose weather is that of an observation of the group and whose range    *)
(* holds the rolling sum, and it is the last advisory; with no such rule   *)
(* the skill is NONE and the group has no advisory.                        *)
C10_MaxSkill ==
    GroupDone =>
        IF Matching = {}
        THEN skill = NONE /\ AdvisoriesOf(loc, recs[1].dt) = {}
        ELSE /\ \E m \in Matching : RAIN_TO_SKILLS[m].skill = skill
             /\ \A m \in Matching : RAIN_TO_SKILLS[m].skill <= skill
             /\ advisories # <<>>
             /\ advisories[Len(advisories)] = <<loc, skill, recs[1].dt>>

\* a group of two observations of different weather; the greatest matching
\* skill is neither that of the first nor that of the last matching rule
C10_Witness ==
    /\ GroupDone
    /\ Len(recs) >= 2
    /\ \E a, b, c \in Matching :
          /\ a < b /\ b < c
          /\ RAIN_TO_SKILLS[a].skill < RAIN_TO_SKILLS[b].skill
          /\ RAIN_TO_SKILLS[c].skill < RAIN_TO_SKILLS[b].skill
          /\ RAIN_TO_SKILLS[a].weather # RAIN_TO_SKILLS[b].weather

-----------------------------------------------------------------------------
\* the next group is of a location with an open window and is not the hour
\* after the window's end
BreakNext ==
    /\ pc = "pass1"
    /\ i <= Len(records)
    /\ LocOf(records[i]) \in DOMAIN data
    /\ records[i].dt # data[LocOf(records[i])].dt_to + 3600

(* C11: the step on a group that breaks the continuity ends the run: the   *)
(* group is not consumed, no window, flood set, anchor or advisory         *)
(* changes, nothing happens after the raise, and the raised run has        *)
(* printed neither the rain-flooded nor the river-flooded result.          *)
C11_RaiseAborts ==
    [][/\ BreakNext =>
            /\ pc' = "raised"
            /\ i' = i
            /\ UNCHANGED <<data, data_order, rain_flood, river_flood,
                           advisories, out_rain, out_river>>
       /\ pc # "raised"
       /\ pc' = "raised" => out_rain' = {} /\ out_river' = <<>>]_vars

\* a raise with records left after the offending group and a rain-flooded
\* location that is never printed
C11_Witness ==
    /\ pc = "raised"
    /\ i + Len(recs) <= Len(records)
    /\ rain_flood # {}
    /\ out_rain = {}

-----------------------------------------------------------------------------
(* Windows, for the properties *)

\* the hourly groups of l consumed so far, by the index of their first record
HoursDone(l) == {m \in Processed : LocOf(records[m]) = l /\ FirstOfHour(m)}

(* C12 as stated: for every tracked location with a non-empty rain         *)
(* sequence, dt_to - dt_from = 3600 * (len(rain_24h) - 1), from the first  *)
(* observation on and after evictions.                                     *)
C12_WindowSpan ==
    \A l \in DOMAIN data :
        data[l].rain_24h # <<>> =>
            data[l].dt_to - data[l].dt_from = 3600 * (Len(data[l].rain_24h) - 1)

(* C12 amended: for every tracked location dt_to - dt_from is 3600 times   *)
(* the number of hours processed for it, dt_from staying one hour before   *)
(* its first observation: the span is 3600 * len(rain_24h) up to 24 hours  *)
(* and more than that once an entry has been evicted (len stays 24).       *)
C12_WindowSpanCountsHours ==
    \A l \in DOMAIN data :
        LET n == Cardinality(HoursDone(l))
        IN  /\ data[l].dt_to - data[l].dt_from = 3600 * n
            /\ Len(data[l].rain_24h) = IF n > 24 THEN 24 ELSE n
            /\ \A m \in HoursDone(l) : data[l].dt_from <= records[m].dt - 3600
            /\ \E m \in HoursDone(l) : data[l].dt_from = records[m].dt - 3600

\* 26 hours processed, 24 entries kept
C12_Witness ==
    \E l \in DOMAIN data :
        /\ Len(data[l].rain_24h) = 24
        /\ data[l].dt_to - data[l].dt_from = 3600 * 26

(* C13: the rain sequence of every tracked location has at most 24         *)
(* entries and is the rain of its most recent processed hours in arrival   *)
(* order: on overflow the oldest entry is the one removed.                 *)
C13_WindowFifo ==
    \A l \in DOMAIN data :
        LET hours == HoursDone(l)
            w == data[l].rain_24h
        IN  /\ Len(w) <= 24
            /\ Len(w) = IF Cardinality(hours) > 24 THEN 24 ELSE Cardinality(hours)
            /\ \A m \in hours :
                  LET later == Cardinality({q \in hours : q > m})
                  IN  later < 24 => w[Len(w) - later] = RainValue(records[m])

\* 26 hours processed: the 50 of the first hour is gone, the 25 of the last
\* hour is the newest entry
C13_Witness ==
    /\ pc = "pass1"
    /\ i = 27
    /\ records[1].rain_1h = <<50>>
    /\ Len(data[loc].rain_24h) = 24
    /\ data[loc].rain_24h[24] = 25
    /\ rain_24h = 25

-----------------------------------------------------------------------------
(* C14: a river-flood line is printed only in pass 2, when pass 1 has      *)
(* consumed every record; in pass 2 the flood set and the anchors no       *)
(* longer change and every anchor is at or before every rain-flooded       *)
(* location near its river; so at the end a location downstream of a       *)
(* rain-flooded one is reported whichever of the two was processed first.  *)
C14_TwoPasses ==
    [][/\ out_river' # out_river => pc = "pass2" /\ i > Len(records)
       /\ pc \in {"pass2", "done"} => UNCHANGED <<rain_flood, river_flood, data>>
       /\ pc' \in {"pass2", "done"} =>
             \A river \in RiverNames : \A u \in rain_flood' :
                 Within(u, river) =>
                     /\ river \in DOMAIN river_flood'
                     /\ river_flood'[river] <= Pos(u, river)
       /\ pc' = "done" =>
             \A l \in Tracked \ rain_flood' : \A river \in RiverNames :
                 (/\ Within(l, river)
                  /\ \E u \in rain_flood' :
                        Within(u, river) /\ Pos(l, river) >= Pos(u, river)) =>
                     <<l, river>> \in Range(out_river')]_vars

\* a reported location that pass 1 processed before the only rain-flooded
\* location near the river, which lies upstream of it
C14_Witness ==
    /\ pc = "done"
    /\ \E a, b \in 1..Len(data_order) : \E river \in RiverNames :
          /\ a < b
          /\ data_order[b] \in out_rain
          /\ <<data_order[a], river>> \in Reported
          /\ Within(data_order[b], river)
          /\ Pos(data_order[a], river) > Pos(data_order[b], river)
          /\ \A x \in out_rain : Within(x, river) => x = data_order[b]

-----------------------------------------------------------------------------
(* Two runs on one collection of records *)

Rotate(s) == IF s = <<>> THEN <<>> ELSE Tail(s) \o <<s[1]>>

\* other arrival orders of the records of this run
Rearranged == {Reverse(records), Rotate(records)}

Ended == pc \in {"done", "raised"}

(* C15 as stated: a run on the same records in another arrival order ends  *)
(* the same way (completed or raised) and prints the same rain-flooded     *)
(* set, the same river-flooded pairs and the same sequence of advisories.  *)
C15_OrderIndependent ==
    Ended =>
        \A other \in Rearranged :
            LET o == RunOf(other)
            IN  /\ o.status = pc
                /\ o.out_rain = out_rain
                /\ Range(o.out_river) = Reported
                /\ o.advisories = advisories

(* C15 amended: the two runs end the same way, and when they complete they *)
(* print the same rain-flooded set, river-flooded pairs and advisories;    *)
(* when they raise, the advisories printed before the raise may differ.    *)
C15_OrderIndependentIfCompleted ==
    Ended =>
        \A other \in Rearranged :
            LET o == RunOf(other)
            IN  /\ o.status = pc
                /\ pc = "done" =>
                      /\ o.out_rain = out_rain
                      /\ o.out_river = out_river
                      /\ o.advisories = advisories

\* a completed run on three records or more that printed a rain-flooded
\* location, a river-flooded one and an advisory
C15_Witness ==
    /\ pc = "done"
    /\ Len(records) >= 3
    /\ Reverse(records) # records
    /\ out_rain # {} /\ out_river # <<>> /\ advisories # <<>>

-----------------------------------------------------------------------------
(* Locations at exactly river_margin from a river *)

Dist(l, river) == RIVERS[river].distance[Point(l)]

(* C16 as stated: a location at distance exactly river_margin from a river *)
(* is near it: rain-flooded, it gives the river an anchor at or before its *)
(* position; not rain-flooded and at or after the anchor, it is reported   *)
(* river-flooded.                                                          *)
C16_MarginInclusive ==
    pc = "done" =>
        \A river \in RiverNames : \A l \in Tracked :
            Dist(l, river) = river_margin =>
                /\ l \in rain_flood =>
                      /\ river \in DOMAIN river_flood
                      /\ river_flood[river] <= Pos(l, river)
                /\ (/\ l \notin rain_flood
                    /\ river \in DOMAIN river_flood
                    /\ Pos(l, river) >= river_flood[river])
                      => <<l, river>> \in Reported

(* C16 amended: a location at distance exactly river_margin is not near    *)
(* the river. The anchor of a river is the least position of the           *)
(* rain-flooded locations at distance below river_margin, and a river has  *)
(* an anchor only if there is one; a location at exactly river_margin is   *)
(* never reported for that river.                                          *)
C16_MarginExclusive ==
    pc = "done" =>
        \A river \in RiverNames :
            LET strict == {u \in rain_flood : Dist(u, river) < river_margin}
            IN  /\ river \in DOMAIN river_flood <=> strict # {}
                /\ strict # {} =>
                      /\ \A u \in strict : river_flood[river] <= Pos(u, river)
                      /\ \E u \in strict : river_flood[river] = Pos(u, river)
                /\ \A l \in Tracked :
                      Dist(l, river) = river_margin => <<l, river>> \notin Reported

\* a completed run with a dry location at exactly river_margin, at or after
\* the anchor of the river, and a rain-flooded location at exactly
\* river_margin from a river that has no anchor
C16_Witness ==
    /\ pc = "done"
    /\ \E river \in DOMAIN river_flood : \E l \in Tracked \ rain_flood :
          /\ Dist(l, river) = river_margin
          /\ Pos(l, river) >= river_flood[river]
    /\ \E river \in RiverNames \ DOMAIN river_flood : \E u \in rain_flood :
          Dist(u, river) = river_margin

-----------------------------------------------------------------------------
(* The ranges of the rules, as written in the rules file *)

\* the rules file that a table was read from
FileOf ==
    [t \in RuleTables |-> CHOOSE file \in RuleFiles : read_rain_to_skills(file) = t]

RulesFile == FileOf[RAIN_TO_SKILLS]

\* the forms of an "amount of rain" cell
IsAny(cell) == Strip(cell) = <<"-">>
IsAbove(cell) == ~IsAny(cell) /\ Strip(cell)[1] = ">"
IsClosed(cell) == ~IsAny(cell) /\ ~IsAbove(cell) /\ "-" \in Range(cell)

\* what the cell says of a rolling sum
Admits(cell, value) ==
    IF IsAny(cell) THEN TRUE
    ELSE IF IsAbove(cell) THEN value > Float(Tail(Strip(cell)))
    ELSE IF IsClosed(cell)
    THEN Float(Split(Strip(cell))[1]) <= value /\ value <= Float(Split(Strip(cell))[2])
    ELSE value = Float(cell)

\* the rows whose weather is that of an observation of the last group and
\* whose cell admits the rolling sum
Admitting ==
    {m \in 1..Len(RulesFile) :
        /\ Admits(RulesFile[m][1], rain_24h)
        /\ \E q \in 1..Len(recs) : RulesFile[m][2] = recs[q].weather_description}

(* C17: a rule's range holds a rolling sum when start <= sum <= stop for an *)
(* inclusive range and when start < sum < stop for an exclusive one: an    *)
(* "any amount" rule is the exclusive range over -inf..inf and matches     *)
(* every rolling sum, a closed lo-hi range is inclusive and matches both   *)
(* endpoints, a ">v" range is exclusive and does not match v; the skill of *)
(* a processed group is the greatest skill of the rows that so match.      *)
C17_RangeCheck ==
    GroupDone =>
        /\ \A m \in 1..Len(RulesFile) :
              LET cell == RulesFile[m][1]
                  rain == RAIN_TO_SKILLS[m].rain
              IN  /\ IsAny(cell) => rain = FloatRange(0 - inf, inf, FALSE)
                  /\ IsAbove(cell) => ~rain.inc /\ rain.stop = inf
                  /\ ~IsAny(cell) /\ ~IsAbove(cell) => rain.inc
                  /\ rain.inc =>
                        ((rain.start <= rain_24h /\ rain_24h <= rain.stop)
                            <=> Admits(cell, rain_24h))
                  /\ ~rain.inc =>
                        ((rain.start < rain_24h /\ rain_24h < rain.stop)
                            <=> Admits(cell, rain_24h))
        /\ IF Admitting = {} THEN skill = NONE
           ELSE /\ \E m \in Admitting : SkillNamed(RulesFile[m][3]) = skill
                /\ \A m \in Admitting : SkillNamed(RulesFile[m][3]) <= skill

\* a group of a Clear and a Rain observation at the rolling sum 25, with a
\* ">25" rule for Clear of the greatest skill, an any-amount rule and a
\* closed range from 25 for Rain: the skill is that of the closed range
C17_Witness ==
    /\ GroupDone
    /\ rain_24h = 25
    /\ \E a, b, c \in 1..Len(RulesFile) :
          /\ IsAbove(RulesFile[a][1]) /\ Float(Tail(Strip(RulesFile[a][1]))) = 25
          /\ \E q \in 1..Len(recs) : recs[q].weather_description = RulesFile[a][2]
          /\ RAIN_TO_SKILLS[a].skill > skill
          /\ IsAny(RulesFile[b][1]) /\ b \in Admitting
          /\ RAIN_TO_SKILLS[b].skill < skill
          /\ IsClosed(RulesFile[c][1]) /\ c \in Admitting
          /\ RAIN_TO_SKILLS[c].rain.start = 25
          /\ RAIN_TO_SKILLS[c].skill = skill

-----------------------------------------------------------------------------
(* Rain-flooded for the rest of the run *)

(* C18: a location added to rain_flood is never removed and a river keeps  *)
(* an anchor at or before the position of every rain-flooded location near *)
(* it, whatever the later rolling sums; when the run completes, every      *)
(* location of rain_flood is printed rain-flooded and none of them is      *)
(* printed river-flooded.                                                  *)
C18_Sticky ==
    [][/\ rain_flood \subseteq rain_flood'
       /\ \A river \in DOMAIN river_flood :
             /\ river \in DOMAIN river_flood'
             /\ river_flood'[river] <= river_flood[river]
       /\ \A u \in rain_flood' : \A river \in RiverNames :
             Within(u, river) =>
                 /\ river \in DOMAIN river_flood'
                 /\ river_flood'[river] <= Pos(u, river)
       /\ pc' = "done" =>
             \A u \in rain_flood' :
                 /\ u \in out_rain'
                 /\ \A river \in RiverNames : <<u, river>> \notin Range(out_river')]_vars

\* a completed run that prints a location rain-flooded whose rolling sum
\* at the end is below the threshold, its anchor kept
C18_Witness ==
    /\ pc = "done"
    /\ \E u \in out_rain :
          /\ Sum(data[u].rain_24h) < rain_threshold
          /\ Len(data[u].rain_24h) = 24
          /\ \E river \in DOMAIN river_flood :
                Within(u, river) /\ river_flood[river] = Pos(u, river)

-----------------------------------------------------------------------------
(* One window per (name, latitude, longitude) *)

Identity(x) == <<x.city_name, x.lat, x.lon>>

\* the consumed observations of an identity, one per hour
OwnHours(id) ==
    {m \in Processed :
        /\ Identity(records[m]) = id
        /\ m = 1 \/ Identity(records[m - 1]) # id \/ records[m - 1].dt # records[m].dt}

\* the window of the identity consumed last holds the rain of its own last
\* 24 hours and nothing else (the other windows are as they were left)
OwnWindows ==
    pc \in {"pass1", "pass2", "done"} /\ i > 1 =>
        LET last == records[i - 1]
            own == OwnHours(Identity(last))
        IN  \E l \in DOMAIN data :
                /\ Identity(l) = Identity(last)
                /\ data[l].dt_to = last.dt
                /\ Sum(data[l].rain_24h) =
                      SumRain({q \in own : records[q].dt > last.dt - 24 * 3600})

\* the next observation follows one of its own identity that is not the
\* hour before
BreaksOwn ==
    LET own == {m \in Processed : Identity(records[m]) = Identity(records[i])}
    IN  /\ own # {}
        /\ \E m \in own :
              /\ \A q \in own : q <= m
              /\ records[i].dt # records[m].dt + 3600

(* C19: processing an observation leaves the window of every other         *)
(* location unchanged; each identity (name, latitude, longitude) has its   *)
(* own window, whose sum is that of its own rain values, also when two     *)
(* identities of one city name interleave in the sorted list; and a run    *)
(* raises only for an observation that does not follow the hour of the     *)
(* last observation of its own identity.                                   *)
C19_PerIdentity ==
    [][/\ \A l \in DOMAIN data :
             l # loc' => l \in DOMAIN data' /\ data'[l] = data[l]
       /\ OwnWindows
       /\ pc' = "raised" => BreaksOwn]_vars

\* a completed run on two locations of one city name whose observations
\* interleave: two hours of one around one hour of the other, each window
\* with its own sum
C19_Witness ==
    /\ pc = "done"
    /\ Len(records) = 3
    /\ Identity(records[1]) = Identity(records[3])
    /\ Identity(records[2]) # Identity(records[1])
    /\ records[2].city_name = records[1].city_name
    /\ Sum(data[LocOf(records[1])].rain_24h) = 50
    /\ Sum(data[LocOf(records[2])].rain_24h) = 25

====
